---------------------------- MODULE Spec2Model ----------------------------
(***************************************************************************)
(* Model of native-extractor/src/lib.rs.                                   *)
(*                                                                         *)
(*  - extract_printable_strings (lines 147-169): the byte scanner, modelled *)
(*    one loop iteration per step, for one call (SpecScan) and for two      *)
(*    interleaved calls on independent buffers (SpecConc).                  *)
(*  - the three exported JNI entry points (lines 22-85) and the helpers     *)
(*    they call (lines 88-144), over every outcome of the /proc reads and   *)
(*    of JNIEnv::new_string (SpecJni).                                      *)
(*                                                                         *)
(* A Rust String is a sequence of chars, a char is its code point, and a    *)
(* byte buffer is a sequence of numbers in 0..255.                          *)
(***************************************************************************)
EXTENDS Integers, Sequences, FiniteSets, TLC

VARIABLES
    data,            \* [call -> byte buffer]   the `data: &[u8]` argument
    min_length,      \* [call -> Nat]           the `min_length: usize` argument
    pc,              \* [call -> "start" | "loop" | "done"]
    pos,             \* [call -> Nat]           bytes the `for` iterator has yielded
    current_string,  \* [frame -> String]       the local `current_string`
    strings,         \* [frame -> Seq(String)]  the local `strings`
    sm_state,        \* [call -> "IDLE" | "ACCUMULATING"]  the two-state view
    sm_acc,          \* [call -> String]        its accumulator
    sm_out,          \* [call -> Seq(String)]   what it has emitted
    entry,           \* the exported entry point that was called, or "none"
    args,            \* [pid, min_length]       its i32 arguments
    maps,            \* outcome of fs::read_to_string("/proc/<pid>/maps")
    mem,             \* outcome of fs::metadata("/proc/<pid>/mem") or ("/proc/1/mem")
    cmdline,         \* outcome of fs::read_to_string("/proc/<pid>/cmdline")
    environ,         \* outcome of fs::read_to_string("/proc/<pid>/environ")
    result,          \* the local `result`: the helper's Result<String, String>
    jpc,             \* "idle" | "returned" | "aborted" | "unwound"
    ret              \* the jstring handed back to the JVM, if any

scanVars == <<data, min_length, pc, pos, current_string, strings,
              sm_state, sm_acc, sm_out>>

jniVars == <<entry, args, maps, mem, cmdline, environ, result, jpc, ret>>

vars == <<scanVars, jniVars>>

---------------------------------------------------------------------------
(* Bounds *)

MaxLen == 4
MaxThreshold == 3
ConcMaxLen == 3
ConcMaxThreshold == 1
EnvMaxLen == 4

\* Byte values on both sides of each edge of the test `byte >= 32 && byte <= 126`.
Bytes == {0, 31, 32, 126, 127, 128}
ConcBytes == {0, 65}

RECURSIVE SeqsUpTo(_, _)
SeqsUpTo(S, n) ==
    IF n = 0 THEN {<< >>}
    ELSE LET shorter == SeqsUpTo(S, n - 1)
         IN  shorter \cup {Append(s, x) : s \in {q \in shorter : Len(q) = n - 1}, x \in S}

Buffers == SeqsUpTo(Bytes, MaxLen)
Thresholds == 0..MaxThreshold
ConcBuffers == SeqsUpTo(ConcBytes, ConcMaxLen)
ConcThresholds == 0..ConcMaxThreshold

---------------------------------------------------------------------------
(* extract_printable_strings, lines 147-169 *)

\* line 152: `byte >= 32 && byte <= 126`
IsPrintableUpTo127(byte) == byte >= 32 /\ byte <= 127
IsPrintable(byte) == byte >= 32 /\ byte <= 126

\* line 154: `byte as char` (u8 -> char keeps the value as the code point)
AsChar(byte) == byte

\* String::len() is the length in UTF-8 bytes, not in chars
Utf8Len(ch) == IF ch < 128 THEN 1 ELSE IF ch < 2048 THEN 2 ELSE 3

RECURSIVE StrLen(_)
StrLen(s) == IF s = << >> THEN 0 ELSE Utf8Len(Head(s)) + StrLen(Tail(s))

\* lines 152-160: one iteration of the loop on the locals loc = [cur, out]
LoopBodyNoClear(loc, byte, min) ==
    IF IsPrintable(byte)
    THEN [cur |-> Append(loc.cur, AsChar(byte)), out |-> loc.out]
    ELSE [cur |-> loc.cur,
          out |-> IF StrLen(loc.cur) >= min THEN Append(loc.out, loc.cur) ELSE loc.out]
LoopBody(loc, byte, min) ==
    IF IsPrintable(byte)
    THEN [cur |-> Append(loc.cur, AsChar(byte)), out |-> loc.out]
    ELSE [cur |-> << >>,
          out |-> IF StrLen(loc.cur) >= min THEN Append(loc.out, loc.cur) ELSE loc.out]

\* lines 163-168: the flush after the loop; the value returned
FlushDropped(loc, min) == loc.out
Flush(loc, min) ==
    IF StrLen(loc.cur) >= min THEN Append(loc.out, loc.cur) ELSE loc.out

\* lines 147-169 as one function: the loop over data[1..n], then the flush
RECURSIVE ScanPrefix(_, _, _)
ScanPrefix(buf, n, min) ==
    IF n = 0 THEN [cur |-> << >>, out |-> << >>]
    ELSE LoopBody(ScanPrefix(buf, n - 1, min), buf[n], min)

extract_printable_strings(buf, min) == Flush(ScanPrefix(buf, Len(buf), min), min)

\* lines 148-149: `strings` and `current_string` are locals of the call, so each
\* call has them in its own frame
SharedFrame(c) == 1
Frame(c) == c

Locals(c) == [cur |-> current_string[Frame(c)], out |-> strings[Frame(c)]]

---------------------------------------------------------------------------
(* The two-state machine of the design: IDLE / ACCUMULATING *)

SmByte(st, byte, min) ==
    IF IsPrintable(byte)
    THEN IF st.state = "IDLE"
         THEN [state |-> "ACCUMULATING", acc |-> <<AsChar(byte)>>, out |-> st.out]
         ELSE [state |-> "ACCUMULATING", acc |-> Append(st.acc, AsChar(byte)), out |-> st.out]
    ELSE IF st.state = "ACCUMULATING"
         THEN [state |-> "IDLE", acc |-> << >>,
               out |-> IF Len(st.acc) >= min THEN Append(st.out, st.acc) ELSE st.out]
         ELSE st

SmEnd(st, min) ==
    IF st.state = "ACCUMULATING" /\ Len(st.acc) >= min
    THEN [st EXCEPT !.out = Append(st.out, st.acc)]
    ELSE st

SmOf(c) == [state |-> sm_state[c], acc |-> sm_acc[c], out |-> sm_out[c]]

---------------------------------------------------------------------------
(* The /proc reads and the report, lines 88-144 *)

\* the io::Error of a failed read, as the text its Display prints
PermissionDenied == <<80, 68>>
NotFound == <<78, 70>>
InvalidData == <<73, 68>>

Unread == [st |-> "unread", val |-> << >>]
OkRead(text) == [st |-> "ok", val |-> text]
ErrRead(e) == [st |-> "err", val |-> e]
Failures == {ErrRead(PermissionDenied), ErrRead(NotFound), ErrRead(InvalidData)}

\* contents of /proc/<pid>/maps, /proc/<pid>/cmdline, /proc/<pid>/environ
MapsOutcomes == {OkRead(<<77>>), OkRead(<< >>)} \cup Failures
CmdlineOutcomes == {OkRead(<<97, 0, 45, 98, 0>>), OkRead(<< >>)} \cup Failures
EnvironOutcomes == {OkRead(t) : t \in SeqsUpTo({0, 65, 66}, EnvMaxLen)} \cup Failures

\* i32 arguments; the values are non-negative, where `min_length as usize`
\* (line 52) keeps the value
Pids == {7, 42}
MinLengths == {0, 4}

\* a line of a report: the literal of its format string and the formatted value
Line(label, text) == [label |-> label, text |-> text]
Blank == Line("", << >>)

\* `{}` of an integer
RECURSIVE Digits(_)
Digits(n) == IF n < 10 THEN <<48 + n>> ELSE Append(Digits(n \div 10), 48 + (n % 10))
Decimal(n) == IF n < 0 THEN <<45>> \o Digits(0 - n) ELSE Digits(n)

\* line 117: cmdline.replace('\0', " ")
Replace(text, from, to) == [k \in 1..Len(text) |-> IF text[k] = from THEN to ELSE text[k]]

\* str::split(sep): the pieces between separators, empty ones included
RECURSIVE Split(_, _)
Split(text, sep) ==
    IF \A k \in 1..Len(text) : text[k] # sep THEN <<text>>
    ELSE LET at == CHOOSE k \in 1..Len(text) :
                       text[k] = sep /\ \A j \in 1..(k - 1) : text[j] # sep
         IN  <<SubSeq(text, 1, at - 1)>> \o Split(SubSeq(text, at + 1, Len(text)), sep)

RECURSIVE NonEmpty(_)
NonEmpty(pieces) ==
    IF pieces = << >> THEN << >>
    ELSE IF Head(pieces) = << >> THEN NonEmpty(Tail(pieces))
    ELSE <<Head(pieces)>> \o NonEmpty(Tail(pieces))

\* line 125: environ.split('\0').filter(|s| !s.is_empty())
EnvVars(text) == NonEmpty(Split(text, 0))

\* lines 88-107, given the outcomes of the two file-system calls
read_process_memory(pid, mapsRead, memOk) ==
    IF mapsRead.st # "ok"
    THEN [ok |-> FALSE,
          lines |-> <<Line("Failed to read maps: (requires root)", mapsRead.val)>>]
    ELSE [ok |-> TRUE,
          lines |-> << Line("Memory maps for PID :", Decimal(pid)),
                       Line("", mapsRead.val),
                       IF memOk THEN Line("Memory accessible (root available)", << >>)
                                ELSE Line("Memory not accessible (requires root)", << >>) >>]

\* lines 116-119
Header(pid, min, cmdText) ==
    << Line("Process: ", Replace(cmdText, 0, 32)),
       Line("PID: ", Decimal(pid)),
       Line("Minimum string length: ", Decimal(min)),
       Blank >>

\* lines 123-129
EnvSection(envRead) ==
    IF envRead.st = "ok"
    THEN <<Line("Environment variables:", << >>)>>
         \o [k \in 1..Len(EnvVars(envRead.val)) |-> Line("  ", EnvVars(envRead.val)[k])]
         \o <<Blank>>
    ELSE << >>

\* lines 133-134
ClosingNotes ==
    << Line("Note: Full memory scanning requires root access", << >>),
       Line("Use Accessibility Service for non-root text extraction", << >>) >>

\* lines 110-137, given the outcomes of the two reads
extract_strings_from_process_strict(pid, min, cmdRead, envRead) ==
    IF cmdRead.st # "ok"
    THEN [ok |-> FALSE, lines |-> <<Line("Failed to read cmdline: ", cmdRead.val)>>]
    ELSE IF envRead.st # "ok"
    THEN [ok |-> FALSE, lines |-> <<Line("Failed to read environ: ", envRead.val)>>]
    ELSE [ok |-> TRUE,
          lines |-> Header(pid, min, cmdRead.val) \o EnvSection(envRead) \o ClosingNotes]
extract_strings_from_process(pid, min, cmdRead, envRead) ==
    IF cmdRead.st # "ok"
    THEN [ok |-> FALSE, lines |-> <<Line("Failed to read cmdline: ", cmdRead.val)>>]
    ELSE [ok |-> TRUE,
          lines |-> Header(pid, min, cmdRead.val) \o EnvSection(envRead) \o ClosingNotes]

\* lines 140-144
check_root_access(memOk) == memOk

---------------------------------------------------------------------------
(* The exported entry points, lines 22-85 *)

NoResult == [ok |-> FALSE, lines |-> << >>]
NoString == [some |-> FALSE, prefix |-> "", lines |-> << >>]
JString(prefix, lines) == [some |-> TRUE, prefix |-> prefix, lines |-> lines]

\* lines 29-41, 54-66: the Ok text as it is, the Err text behind a prefix
Message(res, errPrefix) ==
    IF res.ok THEN JString("", res.lines) ELSE JString(errPrefix, res.lines)

\* env.new_string(..).expect("Couldn't create Java string"); output.into_raw():
\* the message is returned when the JVM creates the string; otherwise expect()
\* panics inside an extern "C" function, which aborts the process or unwinds
\* into the JVM's frames, depending on the toolchain
Marshal(msg, created) ==
    IF created
    THEN /\ jpc' = "returned"
         /\ ret' = msg
    ELSE /\ jpc' \in {"aborted", "unwound"}
         /\ ret' = NoString

JniIdle ==
    /\ entry = "none"
    /\ args = [pid |-> 0, min_length |-> 0]
    /\ maps = Unread
    /\ mem = Unread
    /\ cmdline = Unread
    /\ environ = Unread
    /\ result = NoResult
    /\ jpc = "idle"
    /\ ret = NoString

\* lines 22-42
readProcessMemory ==
    /\ jpc = "idle"
    /\ \E pid \in Pids, mapsRead \in MapsOutcomes, memOk \in BOOLEAN, created \in BOOLEAN :
          /\ entry' = "readProcessMemory"
          /\ args' = [pid |-> pid, min_length |-> 0]
          /\ maps' = mapsRead
          /\ mem' = IF mapsRead.st # "ok" THEN Unread
                    ELSE IF memOk THEN OkRead(<< >>) ELSE ErrRead(PermissionDenied)
          /\ result' = read_process_memory(pid, mapsRead, memOk)
          /\ Marshal(Message(result', "Error reading process memory: "), created)
    /\ UNCHANGED <<cmdline, environ>>
    /\ UNCHANGED scanVars

\* lines 46-67
extractStrings ==
    /\ jpc = "idle"
    /\ \E pid \in Pids, min \in MinLengths, cmdRead \in CmdlineOutcomes,
          envRead \in EnvironOutcomes, created \in BOOLEAN :
          /\ entry' = "extractStrings"
          /\ args' = [pid |-> pid, min_length |-> min]
          /\ cmdline' = cmdRead
          /\ environ' = IF cmdRead.st # "ok" THEN Unread ELSE envRead
          /\ result' = extract_strings_from_process(pid, min, cmdRead, envRead)
          /\ Marshal(Message(result', "Error extracting strings: "), created)
    /\ UNCHANGED <<maps, mem>>
    /\ UNCHANGED scanVars

\* lines 71-85
checkRootAccess ==
    /\ jpc = "idle"
    /\ \E memOk \in BOOLEAN, created \in BOOLEAN :
          /\ entry' = "checkRootAccess"
          /\ mem' = IF memOk THEN OkRead(<< >>) ELSE ErrRead(PermissionDenied)
          /\ Marshal(IF check_root_access(memOk)
                     THEN JString("", <<Line("Root access available", << >>)>>)
                     ELSE JString("", <<Line("Root access not available - native memory extraction will be limited", << >>)>>),
                     created)
    /\ UNCHANGED <<args, maps, cmdline, environ, result>>
    /\ UNCHANGED scanVars

InitJni ==
    /\ data = << >>
    /\ min_length = << >>
    /\ pc = << >>
    /\ pos = << >>
    /\ current_string = << >>
    /\ strings = << >>
    /\ sm_state = << >>
    /\ sm_acc = << >>
    /\ sm_out = << >>
    /\ JniIdle

NextJni == readProcessMemory \/ extractStrings \/ checkRootAccess

SpecJni == InitJni /\ [][NextJni]_vars

---------------------------------------------------------------------------
(* Actions of the scanner *)

Calls == DOMAIN data

\* lines 147-149: the call is entered and its locals are created empty
Enter(c) ==
    /\ pc[c] = "start"
    /\ current_string' = [current_string EXCEPT ![Frame(c)] = << >>]
    /\ strings' = [strings EXCEPT ![Frame(c)] = << >>]
    /\ pc' = [pc EXCEPT ![c] = "loop"]
    /\ UNCHANGED <<data, min_length, pos, sm_state, sm_acc, sm_out>>
    /\ UNCHANGED jniVars

\* lines 151-161: the iterator yields the next byte and the body runs on it
ScanByte(c) ==
    /\ pc[c] = "loop"
    /\ pos[c] < Len(data[c])
    /\ LET byte == data[c][pos[c] + 1]
           loc  == LoopBody(Locals(c), byte, min_length[c])
           sm   == SmByte(SmOf(c), byte, min_length[c])
       IN  /\ current_string' = [current_string EXCEPT ![Frame(c)] = loc.cur]
           /\ strings' = [strings EXCEPT ![Frame(c)] = loc.out]
           /\ sm_state' = [sm_state EXCEPT ![c] = sm.state]
           /\ sm_acc' = [sm_acc EXCEPT ![c] = sm.acc]
           /\ sm_out' = [sm_out EXCEPT ![c] = sm.out]
    /\ pos' = [pos EXCEPT ![c] = pos[c] + 1]
    /\ UNCHANGED <<data, min_length, pc>>
    /\ UNCHANGED jniVars

\* lines 163-168: the iterator is exhausted; flush and return `strings`
EndOfScan(c) ==
    /\ pc[c] = "loop"
    /\ pos[c] = Len(data[c])
    /\ strings' = [strings EXCEPT ![Frame(c)] = Flush(Locals(c), min_length[c])]
    /\ LET sm == SmEnd(SmOf(c), min_length[c])
       IN  /\ sm_state' = [sm_state EXCEPT ![c] = sm.state]
           /\ sm_acc' = [sm_acc EXCEPT ![c] = sm.acc]
           /\ sm_out' = [sm_out EXCEPT ![c] = sm.out]
    /\ pc' = [pc EXCEPT ![c] = "done"]
    /\ UNCHANGED <<data, min_length, pos, current_string>>
    /\ UNCHANGED jniVars

InitCalls(cs, bufs, mins) ==
    /\ data \in [cs -> bufs]
    /\ min_length \in [cs -> mins]
    /\ pc = [c \in cs |-> "start"]
    /\ pos = [c \in cs |-> 0]
    /\ current_string = [c \in cs |-> << >>]
    /\ strings = [c \in cs |-> << >>]
    /\ sm_state = [c \in cs |-> "IDLE"]
    /\ sm_acc = [c \in cs |-> << >>]
    /\ sm_out = [c \in cs |-> << >>]
    /\ JniIdle

InitScan == InitCalls({1}, Buffers, Thresholds)
InitConc == InitCalls({1, 2}, ConcBuffers, ConcThresholds)

NextScan ==
    \/ \E c \in Calls : Enter(c)
    \/ \E c \in Calls : ScanByte(c)
    \/ \E c \in Calls : EndOfScan(c)

SpecScan == InitScan /\ [][NextScan]_vars
SpecConc == InitConc /\ [][NextScan]_vars

Returned(c) == strings[Frame(c)]

---------------------------------------------------------------------------
(* Runs of a buffer, defined on index ranges, independently of the scanner *)

Done(c) == pc[c] = "done"

\* the bytes buf[i..j] as a String
Text(buf, i, j) == [k \in 1..(j - i + 1) |-> AsChar(buf[i + k - 1])]

\* <<i, j>> is a run: a non-empty maximal block of printable bytes
MaximalRuns(buf) ==
    {r \in (1..Len(buf)) \X (1..Len(buf)) :
        /\ r[1] <= r[2]
        /\ \A k \in r[1]..r[2] : buf[k] \in 32..126
        /\ (r[1] = 1 \/ buf[r[1] - 1] \notin 32..126)
        /\ (r[2] = Len(buf) \/ buf[r[2] + 1] \notin 32..126)}

RECURSIVE RunsInOrder(_, _)
RunsInOrder(buf, R) ==
    IF R = {} THEN << >>
    ELSE LET first == CHOOSE r \in R : \A q \in R : r[1] <= q[1]
         IN  <<Text(buf, first[1], first[2])>> \o RunsInOrder(buf, R \ {first})

LongRuns(buf, min) ==
    RunsInOrder(buf, {r \in MaximalRuns(buf) : r[2] - r[1] + 1 >= min})

NoPrintableByte(buf) == \A k \in 1..Len(buf) : buf[k] \notin 32..126

\* the start of the printable block that reaches the end of a buffer whose last
\* byte is printable
TrailingStart(buf) ==
    CHOOSE i \in 1..Len(buf) :
        /\ \A k \in i..Len(buf) : buf[k] \in 32..126
        /\ (i = 1 \/ buf[i - 1] \notin 32..126)

\* out[k..] can be laid on buf as contiguous index ranges that start at or after
\* p, each range starting after the previous start and after the previous end
RECURSIVE Placeable(_, _, _, _)
Placeable(buf, out, k, p) ==
    \/ k > Len(out)
    \/ \E s \in p..(Len(buf) + 1) :
          /\ s + Len(out[k]) - 1 <= Len(buf)
          /\ out[k] = Text(buf, s, s + Len(out[k]) - 1)
          /\ Placeable(buf, out, k + 1, IF Len(out[k]) = 0 THEN s + 1 ELSE s + Len(out[k]))

---------------------------------------------------------------------------
(* Claims about extract_printable_strings *)

\* C1: when a call has returned, its output is exactly the sequence of the
\* maximal printable runs of its buffer that have length >= min_length, in
\* order of appearance, and nothing else.
C1_OutputIsExactlyTheLongRuns ==
    \A c \in Calls : Done(c) => Returned(c) = LongRuns(data[c], min_length[c])

\* C2: at every point of the scan, every string emitted so far has length
\* >= min_length and holds only characters in 32..126.
C2_EmittedStringsLongAndPrintable ==
    \A c \in Calls : pc[c] # "start" =>
        \A i \in 1..Len(strings[Frame(c)]) :
            /\ Len(strings[Frame(c)][i]) >= min_length[c]
            /\ \A k \in 1..Len(strings[Frame(c)][i]) : strings[Frame(c)][i][k] \in 32..126

\* a call has returned a string from a buffer that also held a byte >= 127 and
\* a run shorter than the threshold
C2_Witness ==
    \E c \in Calls :
        /\ Done(c)
        /\ min_length[c] >= 2
        /\ Returned(c) # << >>
        /\ \E i \in 1..Len(data[c]) : data[c][i] >= 127
        /\ \E r \in MaximalRuns(data[c]) : r[2] - r[1] + 1 < min_length[c]

\* C3: a buffer with no printable byte (the empty buffer included) gives the
\* empty output, for every threshold.
C3_NoPrintableByteNoOutput ==
    \A c \in Calls : (Done(c) /\ NoPrintableByte(data[c])) => Returned(c) = << >>

\* C4: with threshold 0 no empty string is ever emitted.
C4_NoEmptyStringAtThresholdZero ==
    \A c \in Calls : (pc[c] # "start" /\ min_length[c] = 0) =>
        \A i \in 1..Len(strings[Frame(c)]) : Len(strings[Frame(c)][i]) >= 1

\* C5: when the buffer ends with a printable byte and the printable block that
\* reaches its end has length >= min_length, that block is the last element of
\* the output.
C5_TrailingRunIsLastOutput ==
    \A c \in Calls :
        (/\ Done(c)
         /\ Len(data[c]) >= 1
         /\ data[c][Len(data[c])] \in 32..126
         /\ Len(data[c]) - TrailingStart(data[c]) + 1 >= min_length[c])
        => /\ Returned(c) # << >>
           /\ Returned(c)[Len(Returned(c))] =
                  Text(data[c], TrailingStart(data[c]), Len(data[c]))

\* a returned call whose buffer holds an earlier terminated run and a trailing
\* unterminated run that meets a threshold >= 1
C5_Witness ==
    \E c \in Calls :
        /\ Done(c)
        /\ Len(data[c]) >= 3
        /\ data[c][Len(data[c])] \in 32..126
        /\ TrailingStart(data[c]) >= 3
        /\ min_length[c] >= 1
        /\ Len(data[c]) - TrailingStart(data[c]) + 1 >= min_length[c]
        /\ Len(Returned(c)) >= 2

\* C6: the returned strings lie on pairwise disjoint, strictly increasing
\* index ranges of the buffer, so their concatenation is a subsequence of it.
C6_OutputsOnDisjointIncreasingRanges ==
    \A c \in Calls : Done(c) => Placeable(data[c], Returned(c), 1, 1)

\* a returned call with two different non-empty strings in its output
C6_Witness ==
    \E c \in Calls :
        /\ Done(c)
        /\ Len(Returned(c)) >= 2
        /\ Len(Returned(c)[1]) >= 1
        /\ Len(Returned(c)[2]) >= 1
        /\ min_length[c] >= 1
        /\ Returned(c)[1] # Returned(c)[2]

\* C8: with the steps of two calls interleaved in any order, a call that has
\* returned has the output the function gives for its own buffer and
\* threshold alone, two calls on equal inputs agree, and no step changes an
\* input buffer.
C8_CallsAreIndependent ==
    /\ [](\A c \in Calls :
            Done(c) => Returned(c) = extract_printable_strings(data[c], min_length[c]))
    /\ [](\A c, d \in Calls :
            (Done(c) /\ Done(d) /\ data[c] = data[d] /\ min_length[c] = min_length[d])
            => Returned(c) = Returned(d))
    /\ [][data' = data /\ min_length' = min_length]_vars

\* two calls on different buffers are both in the middle of their scans, each
\* with a non-empty accumulator of its own
C8_Witness ==
    /\ Calls = {1, 2}
    /\ data[1] # data[2]
    /\ \A c \in Calls : pc[c] = "loop" /\ pos[c] >= 1 /\ pos[c] < Len(data[c])
    /\ current_string[Frame(1)] # << >>
    /\ current_string[Frame(2)] # << >>
    /\ current_string[Frame(1)] # current_string[Frame(2)]

\* C9: after every byte and at the end of input the two-state machine and the
\* scanner have emitted the same strings, and the machine is IDLE exactly
\* when the scanner's accumulator is empty.
C9_StateMachineMatchesScanner ==
    \A c \in Calls : pc[c] # "start" =>
        /\ sm_out[c] = strings[Frame(c)]
        /\ (pc[c] = "loop" => (sm_state[c] = "IDLE" <=> current_string[Frame(c)] = << >>))

---------------------------------------------------------------------------
(* Claims about the entry points and the report *)

Crashed == jpc \in {"aborted", "unwound"}

\* C7: whatever the reads and the creation of the Java string do, an entry
\* point that was called has returned a message string and has not panicked.
C7_EntryPointsReturnAMessage ==
    entry # "none" => (~Crashed /\ jpc = "returned" /\ ret.some)

\* <<i, j>> is an entry of an environment block: a non-empty maximal block of
\* characters other than NUL
NonNulBlocks(text) ==
    {r \in (1..Len(text)) \X (1..Len(text)) :
        /\ r[1] <= r[2]
        /\ \A k \in r[1]..r[2] : text[k] # 0
        /\ (r[1] = 1 \/ text[r[1] - 1] = 0)
        /\ (r[2] = Len(text) \/ text[r[2] + 1] = 0)}

EntriesOf(text) == RunsInOrder(text, NonNulBlocks(text))

\* C10: extract_strings_from_process returns Err exactly when the cmdline read
\* fails, then without reading environ and with the error text alone; with
\* cmdline read it returns Ok with the header and the closing notes around a
\* section that is empty when the environ read fails and otherwise lists the
\* non-empty NUL-separated entries once each, in order.
C10_OnlyCmdlineFailureIsAnError ==
    entry = "extractStrings" =>
        /\ cmdline.st \in {"ok", "err"}
        /\ ~result.ok <=> cmdline.st = "err"
        /\ cmdline.st = "err" =>
              /\ environ.st = "unread"
              /\ result.lines = <<[label |-> "Failed to read cmdline: ", text |-> cmdline.val]>>
        /\ cmdline.st = "ok" =>
              LET n      == Len(result.lines)
                  middle == SubSeq(result.lines, 5, n - 2)
              IN  /\ n >= 6
                  /\ result.lines[1].label = "Process: "
                  /\ result.lines[2] = [label |-> "PID: ", text |-> Decimal(args.pid)]
                  /\ result.lines[3] =
                        [label |-> "Minimum string length: ", text |-> Decimal(args.min_length)]
                  /\ result.lines[n - 1].label = "Note: Full memory scanning requires root access"
                  /\ result.lines[n].label = "Use Accessibility Service for non-root text extraction"
                  /\ environ.st \in {"ok", "err"}
                  /\ environ.st = "err" => middle = << >>
                  /\ environ.st = "ok" =>
                        /\ Len(middle) = Len(EntriesOf(environ.val)) + 2
                        /\ middle[1].label = "Environment variables:"
                        /\ \A k \in 1..Len(EntriesOf(environ.val)) :
                              middle[k + 1] = [label |-> "  ", text |-> EntriesOf(environ.val)[k]]
                        /\ middle[Len(middle)] = [label |-> "", text |-> << >>]

\* extractStrings ran with cmdline read and the environ read failing, and the
\* helper returned Ok
C10_Witness ==
    /\ entry = "extractStrings"
    /\ cmdline.st = "ok"
    /\ environ.st = "err"
    /\ result.ok
    /\ Len(result.lines) = 6

===========================================================================
